---- MODULE Spec2Model ----
(***************************************************************************)
(* Lost & Found (src/app.py): the item table kept in data/items.csv, the   *)
(* image and QR files beside it, and the five Streamlit pages that read    *)
(* and write them.  One action is one run of the script for one page.      *)
(*                                                                         *)
(* Text is a sequence of one-character strings, so that prefix tests,      *)
(* substring search, replace, strip and lower are computed, not assumed.   *)
(* A latitude or longitude is a whole number of micro-degrees.             *)
(***************************************************************************)
EXTENDS Integers, Sequences, FiniteSets, TLC

(***************************************************************************)
(* Bounds                                                                  *)
(***************************************************************************)
\* number of report submissions in one behaviour
MaxReports == 2

(***************************************************************************)
(* Text helpers (Python str methods used by the source)                    *)
(***************************************************************************)
UpperChars == <<"A","B","C","D","E","F","G","H","I","J","K","L","M","N","O","P","Q","R","S","T","U","V","W","X","Y","Z">>
LowerChars == <<"a","b","c","d","e","f","g","h","i","j","k","l","m","n","o","p","q","r","s","t","u","v","w","x","y","z">>

\* a float NaN cell of a DataFrame: not a string (every character of a
\* string is a single character, so no string equals it)
NaN == <<"float:nan">>

\* the lower-case letter of each upper-case letter
LowerOf == [c \in {UpperChars[i] : i \in 1..Len(UpperChars)} |->
              LowerChars[CHOOSE i \in 1..Len(UpperChars) : UpperChars[i] = c]]

lower_char(c) == IF c \in DOMAIN LowerOf THEN LowerOf[c] ELSE c

\* str.lower()
lower(s) == [i \in 1..Len(s) |-> lower_char(s[i])]

\* str.startswith(p)
startswith(s, p) == Len(s) >= Len(p) /\ SubSeq(s, 1, Len(p)) = p

\* old occurs in s at position i
occurs_at(s, old, i) ==
    /\ i + Len(old) - 1 <= Len(s)
    /\ \A j \in 1..Len(old) : s[i + j - 1] = old[j]

\* `t in s` for strings
contains(s, t) == \E i \in 1..(Len(s) - Len(t) + 1) : occurs_at(s, t, i)

\* str.replace(old, "") from position i on: every non-overlapping
\* occurrence, left to right
RECURSIVE remove_from(_, _, _)
remove_from(s, old, i) ==
    IF i > Len(s) THEN <<>>
    ELSE IF Len(old) > 0 /\ occurs_at(s, old, i) THEN remove_from(s, old, i + Len(old))
    ELSE <<s[i]>> \o remove_from(s, old, i + 1)

\* str.replace(old, "")
remove_all(s, old) == remove_from(s, old, 1)

Whitespace == {" ", "\t", "\n", "\r"}

RECURSIVE lstrip(_)
lstrip(s) == IF s # <<>> /\ s[1] \in Whitespace THEN lstrip(Tail(s)) ELSE s

RECURSIVE rstrip(_)
rstrip(s) ==
    IF s # <<>> /\ s[Len(s)] \in Whitespace THEN rstrip(SubSeq(s, 1, Len(s) - 1)) ELSE s

\* str.strip()
strip(s) == rstrip(lstrip(s))

(***************************************************************************)
(* CONFIG and literals of the source                                       *)
(***************************************************************************)
IMAGES_DIR == <<"i","m","a","g","e","s">>
QR_DIR == <<"i","m","a","g","e","s","/","q","r","_","c","o","d","e","s">>
PngExt == <<".","p","n","g">>
ItemIdPrefix == <<"I","t","e","m"," ","I","D",":"," ">>
SelectPlaceholder == <<"-","-"," ","S","e","l","e","c","t"," ","-","-">>
Lost == <<"l","o","s","t">>
Found == <<"f","o","u","n","d">>
All == <<"A","l","l">>
Categories ==
    << <<"A","c","c","e","s","s","o","r","i","e","s">>, <<"B","a","g","s">>,
       <<"C","l","o","t","h","i","n","g">>, <<"E","l","e","c","t","r","o","n","i","c","s">>,
       <<"O","t","h","e","r">> >>

Columns ==
    <<"id", "type", "title", "description", "category",
      "image_path", "latitude", "longitude", "reported_at", "qr_code_path">>
TextColumns ==
    {"id", "type", "title", "description", "category", "image_path", "reported_at", "qr_code_path"}

\* os.path.join(dir, f"{item_id}.png")
path_join(dir, item_id) == dir \o <<"/">> \o item_id \o PngExt

\* f"Item ID: {item_id}", the data put into the QR code
qr_payload(item_id) == ItemIdPrefix \o item_id

\* the three sample items of create_sample_data
SampleItems ==
    << [id |-> <<"1","1","1","1","1","1","1","1","-","a","a","a","a","-","b","b","b","b","-","c","c","c","c","-","1","1","1","1","1","1","1","1","1","1","1","1">>,
        type |-> Lost,
        title |-> <<"B","l","u","e"," ","B","a","c","k","p","a","c","k">>,
        description |-> <<"L","o","s","t"," ","a"," ","b","l","u","e"," ","b","a","c","k","p","a","c","k"," ","n","e","a","r"," ","t","h","e"," ","l","i","b","r","a","r","y">>,
        category |-> Categories[2],
        latitude |-> 12971600, longitude |-> 77594600,
        reported_at |-> <<"2","0","2","5","-","0","8","-","1","0"," ","1","0",":","0","0",":","0","0">>],
       [id |-> <<"2","2","2","2","2","2","2","2","-","b","b","b","b","-","c","c","c","c","-","d","d","d","d","-","2","2","2","2","2","2","2","2","2","2","2","2">>,
        type |-> Found,
        title |-> <<"S","i","l","v","e","r"," ","W","r","i","s","t","w","a","t","c","h">>,
        description |-> <<"F","o","u","n","d"," ","a"," ","s","i","l","v","e","r"," ","w","r","i","s","t","w","a","t","c","h"," ","i","n"," ","t","h","e"," ","c","a","f","e","t","e","r","i","a">>,
        category |-> Categories[1],
        latitude |-> 12972000, longitude |-> 77595000,
        reported_at |-> <<"2","0","2","5","-","0","8","-","0","9"," ","1","4",":","3","0",":","0","0">>],
       [id |-> <<"3","3","3","3","3","3","3","3","-","c","c","c","c","-","d","d","d","d","-","e","e","e","e","-","3","3","3","3","3","3","3","3","3","3","3","3">>,
        type |-> Lost,
        title |-> <<"B","l","a","c","k"," ","J","a","c","k","e","t">>,
        description |-> <<"B","l","a","c","k"," ","j","a","c","k","e","t"," ","l","o","s","t"," ","i","n"," ","a","u","d","i","t","o","r","i","u","m">>,
        category |-> Categories[3],
        latitude |-> 12970500, longitude |-> 77593000,
        reported_at |-> <<"2","0","2","5","-","0","8","-","0","8"," ","1","8",":","2","0",":","0","0">>] >>

\* the row built for one sample item (the `row` dict of create_sample_data)
sample_row(item) ==
    [id |-> item.id, type |-> item.type, title |-> item.title,
     description |-> item.description, category |-> item.category,
     image_path |-> path_join(IMAGES_DIR, item.id),
     latitude |-> item.latitude, longitude |-> item.longitude,
     reported_at |-> item.reported_at,
     qr_code_path |-> path_join(QR_DIR, item.id)]

SampleRows == [i \in 1..Len(SampleItems) |-> sample_row(SampleItems[i])]

(***************************************************************************)
(* The CSV conversions of pandas: DataFrame.to_csv and pandas.read_csv     *)
(*                                                                         *)
(* read_csv infers each column's type.  The text columns hold the sample   *)
(* rows' words in every table with rows, so they stay text columns and a   *)
(* field is changed only by the NA rule below.  latitude and longitude are *)
(* float columns; to_csv writes the shortest numeral that reads back as    *)
(* the same float, so a coordinate is kept as the number it is.            *)
(***************************************************************************)
\* read_csv's default na_values that the inputs of this model can spell
NaValues == { <<>>, <<"N","A">>, <<"N","/","A">>, <<"n","a","n">>, <<"N","a","N">>,
              <<"n","u","l","l">>, <<"N","U","L","L">>, <<"n","/","a">> }

\* read_csv on one text field: an empty or NA-spelled field becomes NaN
read_csv_field(f) == IF f \in NaValues THEN NaN ELSE f

\* to_csv on one cell: NaN is written as the empty field (na_rep = "")
to_csv_field(v) == IF v = NaN THEN <<>> ELSE v

read_csv_row(r) ==
    [c \in DOMAIN r |-> IF c \in TextColumns THEN read_csv_field(r[c]) ELSE r[c]]

to_csv_row(r) ==
    [c \in DOMAIN r |-> IF c \in TextColumns THEN to_csv_field(r[c]) ELSE r[c]]

\* pd.read_csv(DATA_FILE): the DataFrame of a file's rows
read_csv(rows) == [i \in 1..Len(rows) |-> read_csv_row(rows[i])]

\* df.to_csv(DATA_FILE, index=False): the file's rows of a DataFrame
to_csv(df) == [i \in 1..Len(df) |-> to_csv_row(df[i])]

(***************************************************************************)
(* Inputs: what the user types, picks and uploads, and what the            *)
(* environment returns.  The report form varies the fields whose value     *)
(* the code or the CSV conversion treats differently (description, photo); *)
(* the sample rows supply both types and three more titles.                *)
(***************************************************************************)
\* st.radio("Type", ...)
TypeInputs == {Found}
\* st.text_input("Item Title"): a title a sample item also has
TitleInputs == { <<"B","l","a","c","k"," ","J","a","c","k","e","t">> }
\* st.text_area("Description"): left empty, "N/A", or a word
DescriptionInputs == { <<>>, <<"N","/","A">>, <<"w","o","o","l">> }
\* st.selectbox("Category", ...)
CategoryInputs == {Categories[5]}
\* st.number_input: the widget's default 0.0 for both
LatLonInputs == { <<0, 0>> }
\* datetime.now().strftime(...)
NowInputs == { <<"2","0","2","5","-","0","8","-","1","1"," ","0","9",":","0","0",":","0","0">> }
\* st.selectbox("Filter by type", ...)
FilterInputs == {All, Lost, Found}
\* st.text_input("Search by title or description")
SearchInputs == { <<>>, <<"j","a","c","k","e","t">>, <<"J","A","C","K","E","T">>,
                  <<"b","l","u","e">> }
\* st.file_uploader("Upload QR code image"): nothing, a file cv2 cannot read,
\* or a photo
UploadInputs == {"none", "unreadable", "photo"}

\* str(uuid.uuid4()): the n-th identifier issued; fresh, and no sample id
uuid4(n) ==
    <<"a","a","a","a","a","a","a","a","-","0","0","0","0","-","4","0","0","0","-","8","0","0","0","-","0","0","0","0","0","0","0","0","0","0","0">>
    \o <<LowerChars[n]>>

\* an identifier no item carries
UnknownId == <<"n","o","n","e","x","i","s","t","e","n","t","-","i","d">>
Garbage == <<"g","a","r","b","a","g","e">>

(***************************************************************************)
(* State                                                                   *)
(***************************************************************************)
VARIABLES
    hasTextsize,   \* the installed Pillow still has ImageDraw.textsize
    tableExists,   \* os.path.exists(DATA_FILE)
    table,         \* the rows of DATA_FILE, every field as written
    imageFiles,    \* paths of the files saved under IMAGES_DIR
    qrFiles,       \* <<path, payload>> of the QR images under QR_DIR
    reports,       \* number of uuid4 identifiers issued
    seeded,        \* number of times the sample table was written
    last           \* what the last run of the script did and showed

vars == <<hasTextsize, tableExists, table, imageFiles, qrFiles, reports, seeded, last>>

\* the files as one value
Disk == [exists |-> tableExists, rows |-> table, images |-> imageFiles, qrs |-> qrFiles]

\* img.save(path) of a QR image carrying payload: replaces a file at path
write_qr(qrs, path, payload) == {f \in qrs : f[1] # path} \cup {<<path, payload>>}

\* create_placeholder_image: the first drawing is saved to path; the second
\* drawing calls d.textsize, which raises AttributeError where Pillow has
\* removed it
create_placeholder_image(d, path) ==
    [disk |-> [d EXCEPT !.images = @ \cup {path}], raised |-> ~hasTextsize]

\* generate_qr_code_image(item_id, path)
generate_qr_code_image(d, item_id, path) ==
    [d EXCEPT !.qrs = write_qr(@, path, qr_payload(item_id))]

\* df.empty
empty(df) == Len(df) = 0

\* data_exists with the emptiness test inverted
data_exists_inverted(d) == d.exists /\ empty(read_csv(d.rows))

\* the early return of create_sample_data: the file exists and has rows
data_exists(d) == d.exists /\ ~empty(read_csv(d.rows))

\* the for loop of create_sample_data from item i on
RECURSIVE sample_loop(_, _)
sample_loop(d, i) ==
    IF i > Len(SampleItems) THEN [disk |-> d, raised |-> FALSE]
    ELSE LET item == SampleItems[i]
             p == create_placeholder_image(d, path_join(IMAGES_DIR, item.id))
         IN IF p.raised THEN p
            ELSE sample_loop(
                   generate_qr_code_image(p.disk, item.id, path_join(QR_DIR, item.id)),
                   i + 1)

\* create_sample_data that writes nothing
create_sample_data_skipped(d) == [disk |-> d, raised |-> FALSE, wrote |-> FALSE]

\* create_sample_data()
create_sample_data(d) ==
    IF data_exists(d) THEN [disk |-> d, raised |-> FALSE, wrote |-> FALSE]
    ELSE LET r == sample_loop(d, 1)
         IN IF r.raised THEN [disk |-> r.disk, raised |-> TRUE, wrote |-> FALSE]
            ELSE [disk |-> [r.disk EXCEPT !.exists = TRUE, !.rows = to_csv(SampleRows)],
                  raised |-> FALSE, wrote |-> TRUE]

\* load_data()
load_data(d) ==
    LET s == create_sample_data(d)
    IN [disk |-> s.disk, raised |-> s.raised, wrote |-> s.wrote,
        df |-> IF s.raised THEN <<>>
               ELSE IF s.disk.exists THEN read_csv(s.disk.rows)
               ELSE <<>>]

\* save_data(df)
save_data(d, df) == [d EXCEPT !.exists = TRUE, !.rows = to_csv(df)]

\* generate_qr_code that returns the path without saving the image
generate_qr_code_unsaved(d, item_id) ==
    [disk |-> d, qr_path |-> path_join(QR_DIR, item_id)]

\* generate_qr_code(item_id): writes the QR image and returns its path
generate_qr_code(d, item_id) ==
    [disk |-> [d EXCEPT !.qrs = write_qr(@, path_join(QR_DIR, item_id), qr_payload(item_id))],
     qr_path |-> path_join(QR_DIR, item_id)]

\* the files become d
SetDisk(d) ==
    /\ tableExists' = d.exists
    /\ table' = d.rows
    /\ imageFiles' = d.images
    /\ qrFiles' = d.qrs

\* what a run records of its call of load_data
LoadNote(before, l) ==
    [absent |-> ~before.exists, hadRows |-> data_exists(before),
     raised |-> l.raised, df |-> l.df]

Init ==
    /\ hasTextsize \in BOOLEAN
    /\ tableExists \in BOOLEAN
    /\ table = <<>>
    /\ imageFiles = {}
    /\ qrFiles = {}
    /\ reports = 0
    /\ seeded = 0
    /\ last = [page |-> "start"]

(***************************************************************************)
(* Pages                                                                   *)
(***************************************************************************)
\* home_page(): text only
home_page ==
    /\ last' = [page |-> "home"]
    /\ UNCHANGED <<hasTextsize, tableExists, table, imageFiles, qrFiles, reports, seeded>>

\* report_item_page() without a submission: load_data() and the form
report_item_page_view ==
    \E l \in {load_data(Disk)} :
       /\ SetDisk(l.disk)
       /\ seeded' = seeded + (IF l.wrote THEN 1 ELSE 0)
       /\ last' = [page |-> "report", submitted |-> FALSE, load |-> LoadNote(Disk, l)]
       /\ UNCHANGED <<hasTextsize, reports>>

\* report_item_page() with "Submit Report" pressed
report_item_page_submit ==
    /\ reports < MaxReports
    /\ \E l \in {load_data(Disk)} :
       \E item_type \in TypeInputs, title \in TitleInputs, description \in DescriptionInputs,
          category \in CategoryInputs, latlon \in LatLonInputs,
          image_file \in BOOLEAN, now \in NowInputs :
         LET item_id == uuid4(reports + 1)
             image_path == IF image_file THEN path_join(IMAGES_DIR, item_id) ELSE <<>>
             d1 == IF image_file THEN [l.disk EXCEPT !.images = @ \cup {image_path}]
                   ELSE l.disk
             q == generate_qr_code(d1, item_id)
             new_item == [id |-> item_id, type |-> item_type, title |-> title,
                          description |-> description, category |-> category,
                          image_path |-> image_path,
                          latitude |-> latlon[1], longitude |-> latlon[2],
                          reported_at |-> now, qr_code_path |-> q.qr_path]
             df == Append(l.df, new_item)
         IN /\ ~l.raised
            /\ SetDisk(save_data(q.disk, df))
            /\ reports' = reports + 1
            /\ seeded' = seeded + (IF l.wrote THEN 1 ELSE 0)
            /\ last' = [page |-> "report", submitted |-> TRUE, load |-> LoadNote(Disk, l),
                        new_item |-> new_item]
            /\ UNCHANGED hasTextsize

\* df[df["type"] == filter_type], skipped for "All"
filter_by_type(df, filter_type) ==
    IF filter_type # All
    THEN LET keep(row) == row.type = filter_type IN SelectSeq(df, keep)
    ELSE df

\* the lambda of the search: "yes", "no", or "raise" when .lower() is asked
\* of a NaN cell (AttributeError); `or` does not evaluate its right operand
\* when the left one is true
row_matches(row, search_term) ==
    IF row.title = NaN THEN "raise"
    ELSE IF contains(lower(row.title), lower(search_term)) THEN "yes"
    ELSE IF row.description = NaN THEN "raise"
    ELSE IF contains(lower(row.description), lower(search_term)) THEN "yes"
    ELSE "no"

\* df.apply(lambda ..., axis=1) raises as soon as one row raises
search_raises(df, search_term) ==
    search_term # <<>> /\ \E i \in 1..Len(df) : row_matches(df[i], search_term) = "raise"

\* df[df.apply(...)], skipped when search_term is empty
filter_by_search(df, search_term) ==
    IF search_term # <<>>
    THEN LET keep(row) == row_matches(row, search_term) = "yes" IN SelectSeq(df, keep)
    ELSE df

\* df[df["title"] == selected_title]: NaN equals nothing, itself included
rows_with_title(df, selected_title) ==
    LET keep(row) == row.title # NaN /\ row.title = selected_title IN SelectSeq(df, keep)

\* .iloc[0] of the rows with the selected title
selected_item_of(df, selected_title) == rows_with_title(df, selected_title)[1]

\* os.path.exists(path) raises TypeError for a float
exists_raises(path) == path = NaN

\* the part of browse_items_page() after load_data(): l is what load_data
\* returned, choice the position picked in the selection list
browse_show(l, note, filter_type, search_term) ==
    \E df1 \in {filter_by_type(l.df, filter_type)} :
      LET blank == [page |-> "browse", load |-> note, filter_type |-> filter_type,
                    search_term |-> search_term, error |-> "", listed |-> <<>>,
                    choice |-> 0, shown |-> <<>>]
      IN IF l.raised THEN last' = [blank EXCEPT !.error = "load"]
         ELSE IF empty(l.df) THEN last' = [blank EXCEPT !.error = "info"]
         ELSE IF search_raises(df1, search_term)
         THEN last' = [blank EXCEPT !.error = "AttributeError"]
         ELSE \E df2 \in {filter_by_search(df1, search_term)} :
              \E choice \in 1..(Len(df2) + 1) :
                LET titles == [i \in 1..Len(df2) |-> df2[i].title]
                    options == <<SelectPlaceholder>> \o titles
                    selected_title == options[choice]
                    seen == [blank EXCEPT !.listed = df2, !.choice = choice - 1]
                IN IF selected_title = SelectPlaceholder THEN last' = seen
                   ELSE IF rows_with_title(df2, selected_title) = <<>>
                   THEN last' = [seen EXCEPT !.error = "IndexError"]
                   ELSE IF exists_raises(selected_item_of(df2, selected_title).image_path)
                   THEN last' = [seen EXCEPT !.error = "TypeError"]
                   ELSE last' = [seen EXCEPT
                                   !.shown = <<selected_item_of(df2, selected_title)>>]

\* browse_items_page()
browse_items_page ==
    \E l \in {load_data(Disk)} :
      /\ SetDisk(l.disk)
      /\ seeded' = seeded + (IF l.wrote THEN 1 ELSE 0)
      /\ UNCHANGED <<hasTextsize, reports>>
      /\ \E note \in {LoadNote(Disk, l)} :
         \E filter_type \in FilterInputs, search_term \in SearchInputs :
           browse_show(l, note, filter_type, search_term)

\* df[["latitude", "longitude", "title"]].dropna()
map_rows(df) ==
    LET keep(row) == row.title # NaN IN SelectSeq(df, keep)

\* map_view_page()
map_view_page ==
    \E l \in {load_data(Disk)} :
       /\ SetDisk(l.disk)
       /\ seeded' = seeded + (IF l.wrote THEN 1 ELSE 0)
       /\ UNCHANGED <<hasTextsize, reports>>
       /\ last' = [page |-> "map", load |-> LoadNote(Disk, l),
                   error |-> IF l.raised THEN "load"
                             ELSE IF empty(l.df) THEN "info" ELSE "",
                   points |-> IF l.raised THEN <<>>
                              ELSE [i \in 1..Len(map_rows(l.df)) |->
                                      <<map_rows(l.df)[i].latitude,
                                        map_rows(l.df)[i].longitude,
                                        map_rows(l.df)[i].title>>]]

\* the texts the scanner page shows
DecodedMessage == "Decoded data: "
NoCodeMessage == "No QR code detected."
NotFoundMessage == "No item found with this ID."
DetailsMessage == "### Item Details for ID: "

\* extract_item_id without the strip()
extract_item_id_unstripped(data) == remove_all(data, ItemIdPrefix)

\* the item id taken from a decoded payload
extract_item_id(data) == strip(remove_all(data, ItemIdPrefix))

\* rows_with_id matching on the title column
rows_with_id_by_title(df, item_id) ==
    LET keep(row) == row.title # NaN /\ row.title = item_id IN SelectSeq(df, keep)

\* df[df["id"] == item_id]
rows_with_id(df, item_id) ==
    LET keep(row) == row.id # NaN /\ row.id = item_id IN SelectSeq(df, keep)

\* what the page adds for a payload in the "Item ID: " format, given what
\* load_data() returned (l) and the rows with that id (item): the item found
\* and shown, or the warning
lookup_item(acc, item_id, l, item) ==
    LET base == [acc EXCEPT !.disk = l.disk,
                            !.wrote = @ + (IF l.wrote THEN 1 ELSE 0)]
    IN IF l.raised THEN [base EXCEPT !.error = "load"]
       ELSE IF ~empty(item)
       THEN [base EXCEPT
               !.messages = Append(@, [level |-> "markdown",
                                      text |-> DetailsMessage,
                                      arg |-> item_id]),
               !.lookups = Append(@, [item_id |-> item_id, found |-> TRUE,
                                     item |-> <<item[1]>>]),
               !.error = IF exists_raises(item[1].image_path) THEN "TypeError" ELSE ""]
       ELSE [base EXCEPT
               !.messages = Append(@, [level |-> "warning",
                                      text |-> NotFoundMessage,
                                      arg |-> <<>>]),
               !.lookups = Append(@, [item_id |-> item_id, found |-> FALSE,
                                     item |-> <<>>])]

\* the body of `for obj in decoded_objects` for one payload
scan_one(acc, data) ==
    LET echoed == [acc EXCEPT
                     !.messages = Append(@, [level |-> "success",
                                            text |-> DecodedMessage,
                                            arg |-> data])]
    IN IF startswith(data, ItemIdPrefix)
       THEN CHOOSE r \in { lookup_item(echoed, extract_item_id(data), l,
                                       rows_with_id(l.df, extract_item_id(data))) :
                           l \in {load_data(acc.disk)} } : TRUE
       ELSE echoed

\* `for obj in decoded_objects` from position i on; an exception ends it
RECURSIVE scan_loop(_, _, _)
scan_loop(acc, decoded, i) ==
    IF i > Len(decoded) \/ acc.error # "" THEN acc
    ELSE scan_loop(scan_one(acc, decoded[i]), decoded, i + 1)

\* what the QR decoder can return for a photo: payloads of QR codes this
\* program wrote or would write, and foreign text
PayloadInputs ==
    {Garbage, qr_payload(UnknownId), qr_payload(SampleItems[1].id), qr_payload(uuid4(1))}

\* pyzbar.decode(img): no code, one code or two codes in the photo
DecodedInputs ==
    {<<>>} \cup {<<p>> : p \in PayloadInputs} \cup {<<p, q>> : p, q \in PayloadInputs}

\* qr_code_scanner_page().  The decoder's answer matters only for a photo
\* with pyzbar installed; elsewhere it is fixed to the empty list.  The
\* upload is copied to a file in the system's temporary directory, outside
\* the data and image directories kept here.
qr_code_scanner_page ==
    \E upload \in UploadInputs, pyzbar \in BOOLEAN, decoded \in DecodedInputs :
      /\ upload # "photo" => (pyzbar /\ decoded = <<>>)
      /\ ~pyzbar => decoded = <<>>
      /\ LET start == [disk |-> Disk, messages |-> <<>>, lookups |-> <<>>,
                       error |-> "", wrote |-> 0]
             said(level, text) ==
                 [start EXCEPT !.messages = <<[level |-> level, text |-> text, arg |-> <<>>]>>]
         IN \E r \in { IF upload = "none" THEN start
                       ELSE IF upload = "unreadable"
                       THEN said("error", "Error loading image. Please try another file.")
                       ELSE IF ~pyzbar
                       THEN said("error", "Please install pyzbar to use QR code scanning: pip install pyzbar")
                       ELSE IF decoded = <<>>
                       THEN said("warning", NoCodeMessage)
                       ELSE scan_loop(start, decoded, 1) } :
              /\ SetDisk(r.disk)
              /\ seeded' = seeded + r.wrote
              /\ UNCHANGED <<hasTextsize, reports>>
              /\ last' = [page |-> "scan", upload |-> upload, pyzbar |-> pyzbar,
                          decoded |-> decoded, messages |-> r.messages,
                          lookups |-> r.lookups, error |-> r.error,
                          hadRows |-> data_exists(Disk)]

Next ==
    \/ home_page
    \/ report_item_page_view
    \/ report_item_page_submit
    \/ browse_items_page
    \/ map_view_page
    \/ qr_code_scanner_page

Spec == Init /\ [][Next]_vars

(***************************************************************************)
(* The payload round trip on its own: an id is encoded into a QR file by   *)
(* generate_qr_code and the file's payload is read back the way the        *)
(* scanner page reads it                                                   *)
(***************************************************************************)
\* number of pieces an id of the round trip is put together from
MaxIdPieces == 3

IdPieces == { <<"a">>, <<" ">>, <<"-">>, ItemIdPrefix }

RECURSIVE IdsOf(_)
IdsOf(n) ==
    IF n = 0 THEN {<<>>}
    ELSE IdsOf(n - 1) \cup {p \o q : p \in IdPieces, q \in IdsOf(n - 1)}

IdInputs == IdsOf(MaxIdPieces) \cup {SampleItems[i].id : i \in 1..Len(SampleItems)}
            \cup {uuid4(1)}

InitPayload ==
    /\ hasTextsize = TRUE
    /\ tableExists = FALSE
    /\ table = <<>>
    /\ imageFiles = {}
    /\ qrFiles = {}
    /\ reports = 0
    /\ seeded = 0
    /\ \E id \in IdInputs : last = [page |-> "payload", stage |-> "id", id |-> id]

\* generate_qr_code(id)
payload_encode ==
    /\ last.page = "payload" /\ last.stage = "id"
    /\ \E q \in {generate_qr_code(Disk, last.id)} :
         /\ SetDisk(q.disk)
         /\ last' = [page |-> "payload", stage |-> "encoded", id |-> last.id,
                     qr_path |-> q.qr_path]
    /\ UNCHANGED <<hasTextsize, reports, seeded>>

\* the scanner's reading of the payload the decoder returns for that file
payload_decode ==
    /\ last.page = "payload" /\ last.stage = "encoded"
    /\ \E f \in qrFiles :
         /\ f[1] = last.qr_path
         /\ last' = [page |-> "payload", stage |-> "decoded", id |-> last.id,
                     data |-> f[2],
                     recognized |-> startswith(f[2], ItemIdPrefix),
                     item_id |-> extract_item_id(f[2])]
    /\ UNCHANGED <<hasTextsize, tableExists, table, imageFiles, qrFiles, reports, seeded>>

NextPayload ==
    \/ payload_encode
    \/ payload_decode

SpecPayload == InitPayload /\ [][NextPayload]_vars

(***************************************************************************)
(* Properties                                                              *)
(***************************************************************************)
IsPrefix(p, q) == Len(p) <= Len(q) /\ \A i \in 1..Len(p) : p[i] = q[i]

ColumnSet == {Columns[i] : i \in 1..Len(Columns)}

\* the run called load_data() first thing and recorded what it returned
Loaded == last.page \in {"report", "browse", "map"}

\* C1: the item appended by a report submission is found again, equal in all
\* ten fields, by loading the table and matching on its id
C1_RoundTrip ==
    (last.page = "report" /\ last.submitted) =>
        LET found == rows_with_id(load_data(Disk).df, last.new_item.id)
        IN /\ ~empty(found)
           /\ DOMAIN found[1] = ColumnSet
           /\ \A c \in ColumnSet : found[1][c] = last.new_item[c]

PlainId(id) ==
    /\ id = <<>> \/ (id[1] \notin Whitespace /\ id[Len(id)] \notin Whitespace)
    /\ ~contains(id, ItemIdPrefix)

OwnTexts == {last.messages[i].text : i \in 1..Len(last.messages)} \ {DecodedMessage}

\* a scan that decoded at most one code and ran to its end
OneCodeScan ==
    /\ last.page = "scan" /\ last.upload = "photo" /\ last.pyzbar
    /\ Len(last.decoded) <= 1 /\ last.error = ""

\* C4: each negative outcome of a scan (no code, unrecognized payload, id
\* not found) shows a message of its own, different from the other two
C4_DistinctNegativeMessages ==
    /\ NoCodeMessage # NotFoundMessage
    /\ OneCodeScan =>
         IF last.decoded = <<>> THEN OwnTexts = {NoCodeMessage}
         ELSE IF ~startswith(last.decoded[1], ItemIdPrefix)
         THEN OwnTexts # {} /\ OwnTexts \cap {NoCodeMessage, NotFoundMessage} = {}
         ELSE ~last.lookups[1].found => OwnTexts = {NotFoundMessage}

\* the stored rows the filter is to return
ExpectedFilter(rows, kind, term) ==
    LET keep(row) ==
          /\ kind # All => row.type = kind
          /\ term # <<>> => \/ contains(lower(row.title), lower(term))
                            \/ contains(lower(row.description), lower(term))
    IN SelectSeq(rows, keep)

IdsOfRows(rows) == [i \in 1..Len(rows) |-> rows[i].id]

\* C5: the browse filter returns exactly the stored items of the chosen type
\* whose title or description contains the search term, letter case ignored
C5_FilterExact ==
    (last.page = "browse" /\ last.error \notin {"load", "info"}) =>
        /\ last.error # "AttributeError"
        /\ IdsOfRows(last.listed)
             = IdsOfRows(ExpectedFilter(table, last.filter_type, last.search_term))

\* C6: every lookup of the scanner page finds the first stored record whose
\* id equals the extracted id, and says the item is not found exactly when
\* no stored record has that id
C6_FindById ==
    last.page = "scan" =>
        /\ \A k \in 1..Len(last.lookups) :
             LET lk == last.lookups[k]
                 hits == {i \in 1..Len(table) : table[i].id = lk.item_id}
             IN /\ lk.found <=> hits # {}
                /\ lk.found =>
                     lk.item = <<read_csv_row(table[CHOOSE i \in hits : \A j \in hits : i <= j])>>
        /\ Cardinality({i \in 1..Len(last.messages) : last.messages[i].text = NotFoundMessage})
             = Cardinality({k \in 1..Len(last.lookups) : ~last.lookups[k].found})

C6_Witness ==
    /\ last.page = "scan"
    /\ Len(last.lookups) = 2
    /\ last.lookups[1].found /\ last.lookups[1].item[1].id = uuid4(1)
    /\ ~last.lookups[2].found /\ last.lookups[2].item_id = UnknownId

\* C7: the stored rows before a run are a prefix of the stored rows after
\* it, and a report submission adds one row to the table it loaded
C7_AppendOnly ==
    [][ /\ IsPrefix(table, table')
        /\ reports' = reports + 1 => Len(table') = Len(last'.load.df) + 1 ]_vars

\* C8: every stored row has, at its qr_code_path, a QR file whose payload is
\* "Item ID: " followed by the row's id
C8_QrForEveryItem ==
    \A i \in 1..Len(table) :
        /\ <<table[i].qr_code_path, ItemIdPrefix \o table[i].id>> \in qrFiles
        /\ \A f \in qrFiles : f[1] = table[i].qr_code_path => f[2] = ItemIdPrefix \o table[i].id

C8_Witness ==
    /\ Len(table) = Len(SampleItems) + MaxReports
    /\ last.page = "report" /\ last.submitted

\* C9: a run of the browse, map or scanner page over a table that has rows
\* changes no file, and the samples are written only over an absent or
\* rowless table
C9_LoadKeepsFiles ==
    [][ /\ (last'.page \in {"browse", "map", "scan"} /\ tableExists /\ Len(table) > 0)
            => UNCHANGED <<tableExists, table, imageFiles, qrFiles>>
        /\ seeded' # seeded => (~tableExists \/ Len(table) = 0)
        /\ (tableExists /\ Len(table) > 0) => seeded' = seeded ]_vars

C9_Witness ==
    /\ last.page = "scan" /\ last.hadRows /\ Len(last.lookups) > 0
    /\ reports > 0 /\ seeded = 1

\* C10: the details shown on the browse page are those of the entry chosen
\* in the selection list
C10_SelectionShowsChosen ==
    (last.page = "browse" /\ last.choice > 0 /\ last.error = "") =>
        last.shown[1].id = last.listed[last.choice].id

====
